---- MODULE Spec2Model ----
(***************************************************************************)
(* Room Directory and Presence Store of the study-room backend             *)
(* (RoomService over the Room collection and the Redis presence hashes).   *)
(*                                                                         *)
(* Identifiers are integers: a well-formed ObjectId is a number >= 0, a    *)
(* malformed id is BadId.  Users 1..NumUsers exist in the User collection, *)
(* GhostId is a well-formed id with no User document.  A room's _id is its *)
(* position in the Room collection (rooms are never deleted).              *)
(***************************************************************************)
EXTENDS Integers, Sequences, FiniteSets, TLC

\* ---- bounds of the model ----
NumUsers == 3
MaxRooms == 1
NumCodes == 1
MaxSeatsInput == 2
ScenarioSeats == 4
MaxJobs == 2
GenCallers == 2
GenRooms == 2
GenCodes == 2
NumConns == 2
MaxMsgs == 3
MaxLimit == 2

\* ---- program constants ----
DefaultSeats == 8
MinSeats == 2
MaxSeats == 20
Attempts == 3
Concurrency == 5
MaxCodeAttempts == 10

BadId == 0 - 1
GhostId == NumUsers + 1
UserDocs == 1..NumUsers
ScenarioUserDocs == 1..(ScenarioSeats + 2)

\* HTTP-style error messages thrown by the service
OK == "ok"
InvalidUserId == "Invalid user ID"
InvalidIdFormat == "Invalid ID format"
UserNotFound == "User not found"
RoomNotFound == "Room not found"
RoomClosed == "Room is completed"
RoomFull == "Room is full"
AlreadyMember == "Already a member of this room"
NotAMember == "Not a member of this room"
UpdateDenied == "Room not found or access denied"
CodeGenerationExhausted == "Failed to generate unique room code"
ValidationFailed == "Room validation failed"

Absent == "absent"

VARIABLES
  users,      \* the User collection: ids that have a document
  rooms,      \* the Room collection: sequence of documents, _id = index
  presence,   \* Redis hashes room:<id>:presence, a function on <<roomId, userId>>
  res,        \* outcome of the operation that completed last
  pc,         \* position of each caller's in-flight joinRoom (interleaved joins)
  loaded,     \* the Room document each in-flight joinRoom holds in memory
  inflight,   \* each caller's in-flight updateUserOnlineStatus (between hget and hset)
  group,      \* socket.io broadcast groups: pairs <<roomId, connection>>
  sent,       \* the events the last gateway request emitted, per connection
  greq,       \* the last gateway request and how far its handler got
  chatQueue,  \* the module-level chatQueue of config/queue.ts
  jobs,       \* the jobs of the chat.persist queue, in the order they were added
  chat,       \* the ChatMessage collection
  storeUp,    \* whether the database answers the worker's queries
  gen,        \* each caller's in-flight createRoom (code-generation loop and save)
  handler,    \* each connection's in-flight joinRoom handler of the gateway
  lastUsers,  \* the last roomUsers list delivered to each connection
  pager       \* a client reading a room's chat history page by page

dirvars == <<users, rooms, presence, res, pc, loaded>>
callvars == <<gen, handler, lastUsers, pager>>
gwvars == <<inflight, group, sent, greq, chatQueue, jobs, chat, storeUp, callvars>>
vars == <<users, rooms, presence, res, pc, loaded,
          inflight, group, sent, greq, chatQueue, jobs, chat, storeUp, gen, handler, lastUsers, pager>>

\* ---- helpers over documents ----

\* Types.ObjectId.isValid
IsValidObjectId(id) == id >= 0

\* User.findById(id) found a document
UserExists(id) == id \in users

\* user.name of a User document
NameOf(u) == u + 100

RoomIds == 1..Len(rooms)

MemberIds(room) == { room.members[i].userId : i \in 1..Len(room.members) }

RECURSIVE FilterOut(_, _)
\* members.filter(member => member.userId.toString() !== userId)
FilterOut(ms, u) ==
  IF ms = <<>> THEN <<>>
  ELSE IF Head(ms).userId = u THEN FilterOut(Tail(ms), u)
       ELSE <<Head(ms)>> \o FilterOut(Tail(ms), u)

\* members.find(m => m.userId._id.toString() === userId): index of the first match, 0 if none
FindMember(ms, u) ==
  IF \E i \in 1..Len(ms) : ms[i].userId = u
    THEN CHOOSE i \in 1..Len(ms) : ms[i].userId = u /\ \A j \in 1..(i-1) : ms[j].userId # u
    ELSE 0

\* Room.findOne({ code }): the _id of the first room with this code, 0 if none
FindByCode(rs, c) ==
  IF \E i \in 1..Len(rs) : rs[i].code = c
    THEN CHOOSE i \in 1..Len(rs) : rs[i].code = c /\ \A j \in 1..(i-1) : rs[j].code # c
    ELSE 0

\* the presence record written by JSON.stringify({id, name, ready, isOnline})
PresenceEntry(u, ready, online) == [id |-> u, name |-> NameOf(u), ready |-> ready, isOnline |-> online]

\* redis.hset(`room:${roomId}:presence`, userId, value)
HSet(p, roomId, u, e) ==
  [k \in (DOMAIN p) \cup {<<roomId, u>>} |-> IF k = <<roomId, u>> THEN e ELSE p[k]]

\* an hdel that removes nothing
HDel_Keeps(p, roomId, u) == p

\* redis.hdel(`room:${roomId}:presence`, userId)
HDel(p, roomId, u) == [k \in (DOMAIN p) \ {<<roomId, u>>} |-> p[k]]

NoPresence == [k \in {} |-> 0]

\* What the caller of the last completed operation observed: the operation, its
\* room and user arguments, the error thrown (OK if none), and the room's hostId
\* when the operation started (0 if there was no such room).
Result(op, room, u, err) ==
  [ op |-> op, room |-> room, user |-> u, err |-> err,
    hostBefore |-> IF room \in 1..Len(rooms) THEN rooms[room].hostId ELSE 0 ]

\* ---- createRoom ----

Codes == 1..NumCodes
UsedCodes(rs) == { rs[i].code : i \in 1..Len(rs) }

\* Outcome of the code-generation loop: the first checked candidate that no room
\* uses, or 0 when all checked candidates collided (possible once a code is in use).
CodeOutcomes(rs) ==
  (Codes \ UsedCodes(rs)) \cup (IF UsedCodes(rs) # {} THEN {0} ELSE {})

\* new Room({ code, hostId, title, maxSeats: data.maxSeats || 8, members: [host] })
NewRoom(code, hostId, seats) ==
  [ code     |-> code,
    hostId   |-> hostId,
    status   |-> "WAITING",
    maxSeats |-> IF seats = 0 THEN DefaultSeats ELSE seats,
    members  |-> <<[userId |-> hostId, role |-> "HOST", ready |-> FALSE]>> ]

\* roomSchema: maxSeats { min: 2, max: 20 }, enforced by save()
SchemaValid(room) == room.maxSeats >= MinSeats /\ room.maxSeats <= MaxSeats

CreateErr(hostId, seats, code) ==
  IF ~IsValidObjectId(hostId) THEN InvalidUserId
  ELSE IF ~UserExists(hostId) THEN UserNotFound
  ELSE IF code = 0 THEN CodeGenerationExhausted
  ELSE IF ~SchemaValid(NewRoom(code, hostId, seats)) THEN ValidationFailed
  ELSE OK

CreateRoom(hostId, seats) ==
  \E code \in CodeOutcomes(rooms) :
    LET err == CreateErr(hostId, seats, code) IN
    IF err # OK
      THEN /\ res' = Result("create", 0, hostId, err)
           /\ UNCHANGED <<users, rooms, presence, pc, loaded>>
      ELSE /\ Len(rooms) < MaxRooms
           /\ rooms' = Append(rooms, NewRoom(code, hostId, seats))
           /\ presence' = HSet(presence, Len(rooms) + 1, hostId, PresenceEntry(hostId, FALSE, TRUE))
           /\ res' = Result("create", Len(rooms) + 1, hostId, OK)
           /\ UNCHANGED <<users, pc, loaded>>

\* ---- joinRoom ----

\* joinRoom without its capacity check
JoinCheck_NoCapacity(room, u) ==
  IF room.status = "COMPLETED" THEN RoomClosed
  ELSE IF FindMember(room.members, u) # 0 THEN AlreadyMember
  ELSE OK

\* joinRoom comparing with > where the code has >=
JoinCheck_OffByOne(room, u) ==
  IF room.status = "COMPLETED" THEN RoomClosed
  ELSE IF Len(room.members) > room.maxSeats THEN RoomFull
  ELSE IF FindMember(room.members, u) # 0 THEN AlreadyMember
  ELSE OK

\* joinRoom looking for the caller among the members before it checks the capacity
JoinCheck_MemberFirst(room, u) ==
  IF room.status = "COMPLETED" THEN RoomClosed
  ELSE IF FindMember(room.members, u) # 0 THEN AlreadyMember
  ELSE IF Len(room.members) >= room.maxSeats THEN RoomFull
  ELSE OK

\* joinRoom without its check of the room's status
JoinCheck_NoClosedCheck(room, u) ==
  IF Len(room.members) >= room.maxSeats THEN RoomFull
  ELSE IF FindMember(room.members, u) # 0 THEN AlreadyMember
  ELSE OK

\* the validation checks made on the loaded document
JoinCheck(room, u) ==
  IF room.status = "COMPLETED" THEN RoomClosed
  ELSE IF Len(room.members) >= room.maxSeats THEN RoomFull
  ELSE IF FindMember(room.members, u) # 0 THEN AlreadyMember
  ELSE OK

JoinErr(rs, u, c) ==
  IF ~IsValidObjectId(u) THEN InvalidUserId
  ELSE IF FindByCode(rs, c) = 0 THEN RoomNotFound
  ELSE IF JoinCheck(rs[FindByCode(rs, c)], u) # OK THEN JoinCheck(rs[FindByCode(rs, c)], u)
  ELSE IF ~UserExists(u) THEN UserNotFound
  ELSE OK

NewMember(u) == [userId |-> u, role |-> "MEMBER", ready |-> FALSE]

\* room.members.push(member); room.save(): Mongoose saves an array push as the
\* delta $push (with $inc of __v and no condition on __v), so the database
\* appends the element to the array as stored at that moment
SavePush(stored, member) == [stored EXCEPT !.members = Append(@, member)]

JoinRoom(u, c) ==
  LET err == JoinErr(rooms, u, c)
      rid == FindByCode(rooms, c) IN
  IF err # OK
    THEN /\ res' = Result("join", rid, u, err)
         /\ UNCHANGED <<users, rooms, presence, pc, loaded>>
    ELSE /\ rooms' = [rooms EXCEPT ![rid] = SavePush(rooms[rid], NewMember(u))]
         /\ presence' = HSet(presence, rid, u, PresenceEntry(u, FALSE, TRUE))
         /\ res' = Result("join", rid, u, OK)
         /\ UNCHANGED <<users, pc, loaded>>

\* joinRoom of caller u as the steps between its awaits, for interleaved callers:
\* JRead (findOne and the checks on the document read), JUser (findById and the
\* push on the document in memory), JSave (save) and JPresence (hset).
NotLoaded == [rid |-> 0]

JRead(u, c) ==
  LET rid == FindByCode(rooms, c)
      err == IF ~IsValidObjectId(u) THEN InvalidUserId
             ELSE IF rid = 0 THEN RoomNotFound
             ELSE JoinCheck(rooms[rid], u) IN
  /\ pc[u] = "idle"
  /\ IF err # OK
       THEN /\ res' = Result("join", rid, u, err)
            /\ UNCHANGED <<users, rooms, presence, pc, loaded>>
       ELSE /\ loaded' = [loaded EXCEPT ![u] = [rid |-> rid, doc |-> rooms[rid]]]
            /\ pc' = [pc EXCEPT ![u] = "user"]
            /\ UNCHANGED <<users, rooms, presence, res>>

JUser(u) ==
  /\ pc[u] = "user"
  /\ IF ~UserExists(u)
       THEN /\ res' = Result("join", loaded[u].rid, u, UserNotFound)
            /\ pc' = [pc EXCEPT ![u] = "idle"]
            /\ loaded' = [loaded EXCEPT ![u] = NotLoaded]
            /\ UNCHANGED <<users, rooms, presence>>
       ELSE /\ loaded' = [loaded EXCEPT ![u].doc.members = Append(@, NewMember(u))]
            /\ pc' = [pc EXCEPT ![u] = "save"]
            /\ UNCHANGED <<users, rooms, presence, res>>

JSave(u) ==
  /\ pc[u] = "save"
  /\ rooms' = [rooms EXCEPT ![loaded[u].rid] = SavePush(@, NewMember(u))]
  /\ pc' = [pc EXCEPT ![u] = "presence"]
  /\ UNCHANGED <<users, presence, res, loaded>>

JPresence(u) ==
  /\ pc[u] = "presence"
  /\ presence' = HSet(presence, loaded[u].rid, u, PresenceEntry(u, FALSE, TRUE))
  /\ res' = Result("join", loaded[u].rid, u, OK)
  /\ pc' = [pc EXCEPT ![u] = "idle"]
  /\ loaded' = [loaded EXCEPT ![u] = NotLoaded]
  /\ UNCHANGED <<users, rooms>>

\* ---- leaveRoom ----

LeaveErr(rs, roomId, u) ==
  IF ~IsValidObjectId(roomId) \/ ~IsValidObjectId(u) THEN InvalidIdFormat
  ELSE IF roomId \notin 1..Len(rs) THEN RoomNotFound
  ELSE OK

\* a hand-over that gives the role and leaves hostId with the user who left
TransferHost_KeepsHostId(room, u) ==
  IF room.hostId = u /\ Len(room.members) > 0
    THEN [room EXCEPT !.members[1].role = "HOST"]
    ELSE room

\* a hand-over that moves hostId and forgets the role
TransferHost_KeepsRole(room, u) ==
  IF room.hostId = u /\ Len(room.members) > 0
    THEN [room EXCEPT !.hostId = room.members[1].userId]
    ELSE room

\* host hand-over: hostId and role of the first remaining member
TransferHost(room, u) ==
  IF room.hostId = u /\ Len(room.members) > 0
    THEN [room EXCEPT !.hostId = room.members[1].userId,
                      !.members[1].role = "HOST"]
    ELSE room

\* no members left: the room is completed
CompleteIfEmpty(room) ==
  IF Len(room.members) = 0 THEN [room EXCEPT !.status = "COMPLETED"] ELSE room

\* the document leaveRoom saves
LeaveEffect(room, u) ==
  CompleteIfEmpty(TransferHost([room EXCEPT !.members = FilterOut(@, u)], u))

LeaveRoom(roomId, u) ==
  LET err == LeaveErr(rooms, roomId, u) IN
  IF err # OK
    THEN /\ res' = Result("leave", roomId, u, err)
         /\ UNCHANGED <<users, rooms, presence, pc, loaded>>
    ELSE /\ rooms' = [rooms EXCEPT ![roomId] = LeaveEffect(rooms[roomId], u)]
         /\ presence' = HDel(presence, roomId, u)
         /\ res' = Result("leave", roomId, u, OK)
         /\ UNCHANGED <<users, pc, loaded>>

\* ---- toggleReady ----

ToggleErr(rs, roomId, u) ==
  IF ~IsValidObjectId(roomId) \/ ~IsValidObjectId(u) THEN InvalidIdFormat
  ELSE IF roomId \notin 1..Len(rs) THEN RoomNotFound
  ELSE IF FindMember(rs[roomId].members, u) = 0 THEN NotAMember
  ELSE OK

\* a toggle that sets the flag instead of inverting it
ToggleEffect_SetsReady(room, u) ==
  [room EXCEPT !.members[FindMember(room.members, u)].ready = TRUE]

\* member.ready = !member.ready on the member found
ToggleEffect(room, u) ==
  [room EXCEPT !.members[FindMember(room.members, u)].ready = ~@]

ToggleReady(roomId, u) ==
  LET err == ToggleErr(rooms, roomId, u) IN
  IF err # OK
    THEN /\ res' = Result("toggle", roomId, u, err)
         /\ UNCHANGED <<users, rooms, presence, pc, loaded>>
    ELSE LET room == ToggleEffect(rooms[roomId], u) IN
         /\ rooms' = [rooms EXCEPT ![roomId] = room]
         /\ presence' = HSet(presence, roomId, u,
              PresenceEntry(u, room.members[FindMember(room.members, u)].ready, TRUE))
         /\ res' = Result("toggle", roomId, u, OK)
         /\ UNCHANGED <<users, pc, loaded>>

\* ---- updateRoom ----

NoSeats == 0 - 1

UpdateErr(rs, roomId, hostId) ==
  IF ~IsValidObjectId(roomId) \/ ~IsValidObjectId(hostId) THEN InvalidIdFormat
  ELSE IF roomId \notin 1..Len(rs) THEN UpdateDenied
  ELSE IF rs[roomId].hostId # hostId THEN UpdateDenied
  ELSE OK

\* findOneAndUpdate(..., { $set: data }): the given fields overwrite the stored ones
\* (update validators are not enabled); the title is not modelled
UpdateEffect(room, status, seats) ==
  [room EXCEPT !.status = IF status = Absent THEN @ ELSE status,
               !.maxSeats = IF seats = NoSeats THEN @ ELSE seats]

UpdateRoom(roomId, hostId, status, seats) ==
  LET err == UpdateErr(rooms, roomId, hostId) IN
  IF err # OK
    THEN /\ res' = Result("update", roomId, hostId, err)
         /\ UNCHANGED <<users, rooms, presence, pc, loaded>>
    ELSE /\ rooms' = [rooms EXCEPT ![roomId] = UpdateEffect(rooms[roomId], status, seats)]
         /\ res' = Result("update", roomId, hostId, OK)
         /\ UNCHANGED <<users, presence, pc, loaded>>

\* ---- specifications ----

UserInputs == UserDocs \cup {GhostId, BadId}
RoomInputs == 1..MaxRooms
CodeInputs == 0..NumCodes
SeatInputs == (0..MaxSeatsInput) \cup {MaxSeats + 1}

Callers == 1..GhostId

\* no updateUserOnlineStatus in flight, no gateway request yet, chatQueue = null
\* as the module of config/queue.ts is loaded, empty queue and collection
NoCall == [at |-> "idle"]
NoRequest == [conn |-> 0, room |-> 0, stage |-> "none", queue |-> "null"]

\* no createRoom in flight
NoGen == [at |-> "idle", code |-> 0, attempts |-> 0, checked |-> 0, free |-> 0, room |-> 0]
\* no joinRoom handler in flight, no roomUsers event delivered yet
NoHandler == [at |-> "idle", room |-> 0, list |-> {}]
NoList == [seen |-> FALSE, list |-> {}]
\* no history request made yet
NoPager == [at |-> "idle", user |-> 0, room |-> 0, order |-> "desc", limit |-> 0,
            cursor |-> 0, got |-> <<>>, err |-> OK]
InitCalls ==
  /\ gen = [u \in Callers |-> NoGen]
  /\ handler = [c \in UserDocs |-> NoHandler]
  /\ lastUsers = [c \in UserDocs |-> NoList]
  /\ pager = NoPager

InitGateway ==
  /\ inflight = [u \in Callers |-> NoCall]
  /\ group = {}
  /\ sent = [c \in UserDocs |-> {}]
  /\ greq = NoRequest
  /\ chatQueue = "null"
  /\ jobs = <<>>
  /\ chat = <<>>
  /\ storeUp = TRUE
  /\ InitCalls

Init ==
  /\ users = UserDocs
  /\ rooms = <<>>
  /\ presence = NoPresence
  /\ res = [op |-> "none", room |-> 0, user |-> 0, err |-> OK, hostBefore |-> 0]
  /\ pc = [u \in Callers |-> "idle"]
  /\ loaded = [u \in Callers |-> NotLoaded]
  /\ InitGateway

Create == (\E h \in UserInputs, s \in SeatInputs : CreateRoom(h, s)) /\ UNCHANGED gwvars
Join == (\E u \in UserInputs, c \in CodeInputs : JoinRoom(u, c)) /\ UNCHANGED gwvars
Leave == (\E r \in RoomInputs, u \in UserInputs : LeaveRoom(r, u)) /\ UNCHANGED gwvars
Toggle == (\E r \in RoomInputs, u \in UserInputs : ToggleReady(r, u)) /\ UNCHANGED gwvars
\* updateRoom data: a status alone or a maxSeats alone (statuses other than
\* COMPLETED are not told apart by any operation, ACTIVE stands for them)
UpdateData ==
  { <<st, NoSeats>> : st \in {"ACTIVE", "COMPLETED"} } \cup { <<Absent, s>> : s \in 1..MaxSeatsInput }
Update ==
  /\ \E r \in RoomInputs, h \in UserInputs, d \in UpdateData : UpdateRoom(r, h, d[1], d[2])
  /\ UNCHANGED gwvars

\* createRoom, joinRoom and leaveRoom only, each run to completion
NextDir == Create \/ Join \/ Leave
SpecDir == Init /\ [][NextDir]_vars

\* every Room Directory operation, each run to completion
Next == Create \/ Join \/ Leave \/ Toggle \/ Update
Spec == Init /\ [][Next]_vars

\* joinRoom calls of different callers interleaved at their awaits
ReadStep == (\E u \in Callers, c \in CodeInputs : JRead(u, c)) /\ UNCHANGED gwvars
UserStep == (\E u \in Callers : JUser(u)) /\ UNCHANGED gwvars
SaveStep == (\E u \in Callers : JSave(u)) /\ UNCHANGED gwvars
PresenceStep == (\E u \in Callers : JPresence(u)) /\ UNCHANGED gwvars
NextJoinRace == Create \/ ReadStep \/ UserStep \/ SaveStep \/ PresenceStep
SpecJoinRace == Init /\ [][NextJoinRace]_vars

\* the capacity scenario: one room of ScenarioSeats seats, then joins
InitScenario ==
  /\ users = ScenarioUserDocs
  /\ rooms = <<>>
  /\ presence = NoPresence
  /\ res = [op |-> "none", room |-> 0, user |-> 0, err |-> OK, hostBefore |-> 0]
  /\ pc = [u \in Callers |-> "idle"]
  /\ loaded = [u \in Callers |-> NotLoaded]
  /\ InitGateway

ScenarioCreate ==
  /\ rooms = <<>>
  /\ \E h \in ScenarioUserDocs : CreateRoom(h, ScenarioSeats)
  /\ UNCHANGED gwvars
ScenarioJoin == (\E u \in ScenarioUserDocs, c \in Codes : JoinRoom(u, c)) /\ UNCHANGED gwvars
NextScenario == ScenarioCreate \/ ScenarioJoin
SpecScenario == InitScenario /\ [][NextScenario]_vars

\* ---- getRoomById, getRoomPresence, updateUserOnlineStatus ----

AccessDenied == "Access denied - not a room member"

\* a membership check that accepts every user of an existing room
GetRoomByIdErr_NoMemberCheck(rs, roomId, u) ==
  IF ~IsValidObjectId(roomId) \/ ~IsValidObjectId(u) THEN InvalidIdFormat
  ELSE IF roomId \notin 1..Len(rs) THEN RoomNotFound
  ELSE OK

\* getRoomById: the error thrown, OK when the room is returned
GetRoomByIdErr(rs, roomId, u) ==
  IF ~IsValidObjectId(roomId) \/ ~IsValidObjectId(u) THEN InvalidIdFormat
  ELSE IF roomId \notin 1..Len(rs) THEN RoomNotFound
  ELSE IF u \notin MemberIds(rs[roomId]) THEN AccessDenied
  ELSE OK

\* redis.hgetall(`room:${roomId}:presence`) mapped through JSON.parse: the
\* entries of the room, in no particular order
GetRoomPresence(p, roomId) == { p[k] : k \in { q \in DOMAIN p : q[1] = roomId } }

\* redis.hget(`room:${roomId}:presence`, userId): whether a value came back
\* (if (presenceData)), and the value
HExists(p, roomId, u) == <<roomId, u>> \in DOMAIN p
HGet(p, roomId, u) == p[<<roomId, u>>]

\* parsed.isOnline = isOnline; hset of the parsed entry
WriteOnline(p, roomId, u, parsed, isOnline) ==
  HSet(p, roomId, u, [parsed EXCEPT !.isOnline = isOnline])

\* updateUserOnlineStatus run without interruption
SetOnline(p, roomId, u, isOnline) ==
  IF HExists(p, roomId, u)
    THEN WriteOnline(p, roomId, u, HGet(p, roomId, u), isOnline)
    ELSE p

UpdateUserOnlineStatus(roomId, u, isOnline) ==
  /\ presence' = SetOnline(presence, roomId, u, isOnline)
  /\ res' = Result("online", roomId, u, OK)
  /\ UNCHANGED <<users, rooms, pc, loaded>>

\* the operations that write the Room collection's members or the presence
\* hashes, each run to completion
Online ==
  /\ \E r \in RoomInputs, u \in UserInputs, b \in BOOLEAN : UpdateUserOnlineStatus(r, u, b)
  /\ UNCHANGED gwvars
NextCompleted == Create \/ Join \/ Leave \/ Toggle \/ Online
SpecCompleted == Init /\ [][NextCompleted]_vars

\* ---- config/queue.ts ----

QueueNotInitialized == "Chat queue not initialized. Call createChatQueue() first."
AddRejected == "chatQueue.add rejected"
NoUser == 0

\* createChatQueue: builds the queue unless it exists; connectToRedis may throw,
\* which app.ts logs and ignores
CreateChatQueue ==
  /\ \E ok \in BOOLEAN :
       chatQueue' = IF chatQueue = "null" /\ ok THEN "open" ELSE chatQueue
  /\ UNCHANGED <<dirvars, inflight, group, sent, greq, jobs, chat, storeUp, callvars>>

\* closeChatQueue
CloseChatQueue ==
  /\ chatQueue' = "null"
  /\ UNCHANGED <<dirvars, inflight, group, sent, greq, jobs, chat, storeUp, callvars>>

\* the queue's Redis connection is lost (the 'error' event) or comes back
QueueOutage ==
  /\ chatQueue = "open"
  /\ chatQueue' = "broken"
  /\ UNCHANGED <<dirvars, inflight, group, sent, greq, jobs, chat, storeUp, callvars>>

QueueRecover ==
  /\ chatQueue = "broken"
  /\ chatQueue' = "open"
  /\ UNCHANGED <<dirvars, inflight, group, sent, greq, jobs, chat, storeUp, callvars>>

\* getChatQueue() followed by add(): the error thrown, OK when the job is added
EnqueueErr(q) ==
  IF q = "null" THEN QueueNotInitialized
  ELSE IF q = "broken" THEN AddRejected
  ELSE OK

\* a job as Queue.add stores it: the payload, the attempts made, the state;
\* the timestamp is the position in the order of adding
NewJob(roomId, userId, type, stamp) ==
  [ roomId |-> roomId, userId |-> userId, type |-> type, timestamp |-> stamp,
    attemptsMade |-> 0, state |-> "waiting" ]

\* ---- the gateway's joinRoom handler ----

GetRoomMessagesMissing == "roomService.getRoomMessages is not a function"

ErrorEvent(msg) == [kind |-> "error", data |-> msg]
SystemMessageEvent(u) == [kind |-> "systemMessage", data |-> NameOf(u)]
RoomUsersEvent(list) == [kind |-> "roomUsers", data |-> list]

\* the connections in the broadcast group of a room
GroupOf(g, roomId) == { c \in UserDocs : <<roomId, c>> \in g }

Kinds(evs) == { e.kind : e \in evs }

\* socket.on('joinRoom'): the whole handler for connection c (the socket of
\* user c).  It stops at the first call that throws and emits the error to
\* its own socket: getRoomById (stage "check"), getChatQueue/add (stage
\* "queue"), and roomService.getRoomMessages, a method RoomService does not
\* have (stage "history").
GatewayJoinRoom(c, roomId) ==
  LET err == GetRoomByIdErr(rooms, roomId, c) IN
  IF err # OK
    THEN /\ sent' = [k \in UserDocs |-> IF k = c THEN {ErrorEvent(err)} ELSE {}]
         /\ greq' = [conn |-> c, room |-> roomId, stage |-> "check", queue |-> chatQueue]
         /\ UNCHANGED <<dirvars, inflight, group, chatQueue, jobs, chat, storeUp, callvars>>
    ELSE
      LET online == SetOnline(presence, roomId, c, TRUE)
          list == GetRoomPresence(online, roomId)
          joined == group \cup {<<roomId, c>>}
          others == GroupOf(joined, roomId) \ {c}
          qerr == EnqueueErr(chatQueue) IN
      /\ group' = joined
      /\ presence' = online
      /\ IF qerr # OK
           THEN /\ sent' = [k \in UserDocs |->
                      IF k = c THEN {ErrorEvent(qerr)}
                      ELSE IF k \in others THEN {SystemMessageEvent(c)} ELSE {}]
                /\ greq' = [conn |-> c, room |-> roomId, stage |-> "queue", queue |-> chatQueue]
                /\ UNCHANGED jobs
           ELSE /\ Len(jobs) < MaxJobs
                /\ jobs' = Append(jobs, NewJob(roomId, NoUser, "SYSTEM", Len(jobs) + 1))
                /\ sent' = [k \in UserDocs |->
                      IF k = c THEN {RoomUsersEvent(list), ErrorEvent(GetRoomMessagesMissing)}
                      ELSE IF k \in others THEN {SystemMessageEvent(c), RoomUsersEvent(list)}
                      ELSE {}]
                /\ greq' = [conn |-> c, room |-> roomId, stage |-> "history", queue |-> chatQueue]
      /\ UNCHANGED <<users, rooms, res, pc, loaded, inflight, chatQueue, chat, storeUp, callvars>>

GatewayJoin == \E c \in UserDocs, r \in RoomInputs : GatewayJoinRoom(c, r)

\* a connection that is in a broadcast group disconnects: socket.io takes the
\* socket out of its groups; setupEventHandlers registers no 'disconnect'
\* handler (joinRoom is the only event it handles), so nothing else happens
Disconnect(c) ==
  /\ \E r \in RoomInputs : <<r, c>> \in group
  /\ group' = { g \in group : g[2] # c }
  /\ UNCHANGED <<dirvars, inflight, sent, greq, chatQueue, jobs, chat, storeUp, callvars>>

DisconnectStep == \E c \in UserDocs : Disconnect(c)

\* createRoom, joinRoom and leaveRoom as the authenticated routes call them:
\* for a user that exists, with the default number of seats
AuthCreate == (\E h \in UserDocs : CreateRoom(h, 0)) /\ UNCHANGED gwvars
AuthJoin == (\E u \in UserDocs, c \in Codes : JoinRoom(u, c)) /\ UNCHANGED gwvars
AuthLeave == (\E r \in RoomInputs, u \in UserDocs : LeaveRoom(r, u)) /\ UNCHANGED gwvars

\* the gateway next to createRoom, joinRoom and leaveRoom, and the life of the queue
NextGateway ==
  \/ AuthCreate \/ AuthJoin \/ AuthLeave \/ GatewayJoin
  \/ CreateChatQueue \/ CloseChatQueue \/ QueueOutage \/ QueueRecover
SpecGateway == Init /\ [][NextGateway]_vars

\* connections that join rooms over the gateway and disconnect
NextConnection ==
  AuthCreate \/ AuthJoin \/ AuthLeave \/ GatewayJoin \/ DisconnectStep \/ CreateChatQueue
SpecConnection == Init /\ [][NextConnection]_vars

\* ---- the joinRoom handler between its awaits ----

\* await roomService.getRoomById(roomId, user.id)
HEnter(c, roomId) ==
  /\ handler[c].at = "idle"
  /\ LET err == GetRoomByIdErr(rooms, roomId, c) IN
     IF err # OK
       THEN /\ sent' = [k \in UserDocs |-> IF k = c THEN {ErrorEvent(err)} ELSE {}]
            /\ UNCHANGED handler
       ELSE /\ handler' = [handler EXCEPT ![c] = [at |-> "bind", room |-> roomId, list |-> {}]]
            /\ UNCHANGED sent
  /\ UNCHANGED <<dirvars, inflight, group, greq, chatQueue, jobs, chat, storeUp, gen, lastUsers, pager>>

\* await socket.join(roomId)
HBind(c) ==
  /\ handler[c].at = "bind"
  /\ group' = group \cup {<<handler[c].room, c>>}
  /\ handler' = [handler EXCEPT ![c].at = "online"]
  /\ UNCHANGED <<dirvars, inflight, sent, greq, chatQueue, jobs, chat, storeUp, gen, lastUsers, pager>>

\* await roomService.updateUserOnlineStatus(roomId, user.id, true)
HOnline(c) ==
  /\ handler[c].at = "online"
  /\ presence' = SetOnline(presence, handler[c].room, c, TRUE)
  /\ handler' = [handler EXCEPT ![c].at = "read"]
  /\ UNCHANGED <<users, rooms, res, pc, loaded, inflight, group, sent, greq, chatQueue,
                 jobs, chat, storeUp, gen, lastUsers, pager>>

\* await roomService.getRoomPresence(roomId), the systemMessage broadcast to the
\* other sockets of the group, and getChatQueue(), which throws without a queue
HRead(c) ==
  /\ handler[c].at = "read"
  /\ LET others == GroupOf(group, handler[c].room) \ {c} IN
     IF chatQueue = "null"
       THEN /\ sent' = [k \in UserDocs |->
                  IF k = c THEN {ErrorEvent(QueueNotInitialized)}
                  ELSE IF k \in others THEN {SystemMessageEvent(c)} ELSE {}]
            /\ handler' = [handler EXCEPT ![c] = NoHandler]
       ELSE /\ sent' = [k \in UserDocs |-> IF k \in others THEN {SystemMessageEvent(c)} ELSE {}]
            /\ handler' = [handler EXCEPT ![c].at = "add",
                                          ![c].list = GetRoomPresence(presence, handler[c].room)]
  /\ UNCHANGED <<dirvars, inflight, group, greq, chatQueue, jobs, chat, storeUp, gen, lastUsers, pager>>

\* await chatQueue.add(...), then the roomUsers broadcast of the list read
\* before the add, then roomService.getRoomMessages, which throws
HAdd(c) ==
  /\ handler[c].at = "add"
  /\ LET roomId == handler[c].room
         err == EnqueueErr(chatQueue)
         bound == GroupOf(group, roomId) IN
     IF err # OK
       THEN /\ sent' = [k \in UserDocs |-> IF k = c THEN {ErrorEvent(err)} ELSE {}]
            /\ UNCHANGED <<jobs, lastUsers>>
       ELSE /\ Len(jobs) < MaxJobs
            /\ jobs' = Append(jobs, NewJob(roomId, NoUser, "SYSTEM", Len(jobs) + 1))
            /\ lastUsers' = [k \in UserDocs |->
                  IF k \in bound THEN [seen |-> TRUE, list |-> handler[c].list] ELSE lastUsers[k]]
            /\ sent' = [k \in UserDocs |->
                  (IF k \in bound THEN {RoomUsersEvent(handler[c].list)} ELSE {})
                    \cup (IF k = c THEN {ErrorEvent(GetRoomMessagesMissing)} ELSE {})]
  /\ handler' = [handler EXCEPT ![c] = NoHandler]
  /\ UNCHANGED <<dirvars, inflight, group, greq, chatQueue, chat, storeUp, gen, pager>>

\* no joinRoom handler is between two of its awaits
Quiet == \A c \in UserDocs : handler[c].at = "idle"

\* the connections that send joinRoom
Conns == 1..NumConns
HEnterStep == \E c \in Conns, r \in RoomInputs : HEnter(c, r)
HBindStep == \E c \in Conns : HBind(c)
HOnlineStep == \E c \in Conns : HOnline(c)
HReadStep == \E c \in Conns : HRead(c)
HAddStep == \E c \in Conns : HAdd(c)
QuietCreate == Quiet /\ AuthCreate
QuietJoin == Quiet /\ AuthJoin
QuietOnline ==
  /\ Quiet
  /\ \E r \in RoomInputs, u \in UserDocs, b \in BOOLEAN : UpdateUserOnlineStatus(r, u, b)
  /\ UNCHANGED gwvars

\* joinRoom handlers of several connections interleaved at their awaits; the
\* service calls that build up the room run while no handler is in flight
NextBroadcast ==
  \/ QuietCreate \/ QuietJoin \/ QuietOnline \/ CreateChatQueue
  \/ HEnterStep \/ HBindStep \/ HOnlineStep \/ HReadStep \/ HAddStep
SpecBroadcast == Init /\ [][NextBroadcast]_vars

\* ---- updateUserOnlineStatus between its awaits ----

\* hget and the test of its result: without an entry the call returns, with
\* one it holds the parsed entry until its hset
OnlineRead(roomId, u, isOnline) ==
  /\ inflight[u] = NoCall
  /\ IF HExists(presence, roomId, u)
       THEN /\ inflight' = [inflight EXCEPT ![u] =
                 [at |-> "write", room |-> roomId,
                  parsed |-> HGet(presence, roomId, u), isOnline |-> isOnline]]
            /\ UNCHANGED res
       ELSE /\ res' = Result("online", roomId, u, OK)
            /\ UNCHANGED inflight
  /\ UNCHANGED <<users, rooms, presence, pc, loaded, group, sent, greq, chatQueue, jobs, chat, storeUp, callvars>>

\* the hset of the entry parsed at the hget, with the new isOnline
OnlineWrite(u) ==
  /\ inflight[u] # NoCall
  /\ presence' = WriteOnline(presence, inflight[u].room, u, inflight[u].parsed, inflight[u].isOnline)
  /\ res' = Result("online", inflight[u].room, u, OK)
  /\ inflight' = [inflight EXCEPT ![u] = NoCall]
  /\ UNCHANGED <<users, rooms, pc, loaded, group, sent, greq, chatQueue, jobs, chat, storeUp, callvars>>

AuthToggle == (\E r \in RoomInputs, u \in UserDocs : ToggleReady(r, u)) /\ UNCHANGED gwvars
OnlineReadStep == \E r \in RoomInputs, u \in UserDocs, b \in BOOLEAN : OnlineRead(r, u, b)
OnlineWriteStep == \E u \in UserDocs : OnlineWrite(u)

\* createRoom, leaveRoom and toggleReady, which write and remove presence
\* entries, with updateUserOnlineStatus interleaved with them at its await
NextPresence ==
  AuthCreate \/ AuthLeave \/ AuthToggle \/ OnlineReadStep \/ OnlineWriteStep
SpecPresence == Init /\ [][NextPresence]_vars

\* ---- the chat worker and the retry policy of the queue ----

StoreUnavailable == "database unavailable"
RoomMissing == "Room not found (worker)"
UserMissing == "User not found (worker)"
NotRoomMember == "User is not a member of room"

\* a worker that validates the user of every job, system messages included
NeedsUserCheck_Always(job) == TRUE

\* if (data.userId && data.type !== 'SYSTEM')
NeedsUserCheck(job) == job.userId # NoUser /\ job.type # "SYSTEM"

\* a worker that looks the user up but not the membership
ProcessErr_NoMemberCheck(job) ==
  IF ~storeUp THEN StoreUnavailable
  ELSE IF job.roomId \notin RoomIds THEN RoomMissing
  ELSE IF NeedsUserCheck(job) /\ ~UserExists(job.userId) THEN UserMissing
  ELSE OK

\* processChatMessage up to the write: the error thrown, OK when it reaches
\* ChatMessage.create (with the database down the first query throws)
ProcessErr(job) ==
  IF ~storeUp THEN StoreUnavailable
  ELSE IF job.roomId \notin RoomIds THEN RoomMissing
  ELSE IF NeedsUserCheck(job) /\ ~UserExists(job.userId) THEN UserMissing
  ELSE IF NeedsUserCheck(job) /\ job.userId \notin MemberIds(rooms[job.roomId]) THEN NotRoomMember
  ELSE OK

\* Times are instants on one logical clock: a job's timestamp (the ISO string
\* of the instant the producer made the event, which new Date() parses back to
\* that instant) is its position in the order of adding; a write happens at
\* WriteClock, after every add.
NoDate == 0
WriteClock == MaxJobs + Len(chat) + 1

\* schema option timestamps: { createdAt: true }: on saving a new document the
\* hook sets createdAt to the current time only if the document carries none
ApplyTimestamps(doc, now) ==
  IF doc.createdAt = NoDate THEN [doc EXCEPT !.createdAt = now] ELSE doc

\* a create that leaves createdAt to the schema's timestamps hook
NewChatMessage_WallClock(job) ==
  ApplyTimestamps(
    [ roomId |-> job.roomId, userId |-> job.userId, type |-> job.type, createdAt |-> NoDate ],
    WriteClock)

\* ChatMessage.create({ roomId, userId, content, type, createdAt: new Date(data.timestamp) })
NewChatMessage(job) ==
  ApplyTimestamps(
    [ roomId |-> job.roomId, userId |-> job.userId, type |-> job.type, createdAt |-> job.timestamp ],
    WriteClock)

\* a retry policy that allows one attempt more than configured
AfterFailure_OneMore(job) ==
  [job EXCEPT !.attemptsMade = @ + 1,
              !.state = IF job.attemptsMade + 1 > Attempts THEN "failed" ELSE "waiting"]

\* the queue after a processor threw: attempts: 3, then the job is failed;
\* before that it waits (after its backoff delay) for the next attempt
AfterFailure(job) ==
  [job EXCEPT !.attemptsMade = @ + 1,
              !.state = IF job.attemptsMade + 1 >= Attempts THEN "failed" ELSE "waiting"]

\* the queue after a processor returned
AfterSuccess(job) == [job EXCEPT !.attemptsMade = @ + 1, !.state = "completed"]

\* the jobs the worker processes at the same time: it takes waiting jobs in
\* the order they were added, up to Concurrency of them
Taken(j) ==
  Cardinality({ k \in 1..(j - 1) : jobs[k].state = "waiting" }) < Concurrency

\* one attempt of the worker on job j, one of the jobs it has taken; the
\* attempts of the jobs taken together finish in any order
Process(j) ==
  /\ j \in 1..Len(jobs)
  /\ jobs[j].state = "waiting"
  /\ Taken(j)
  /\ IF ProcessErr(jobs[j]) = OK
       THEN /\ chat' = Append(chat, NewChatMessage(jobs[j]))
            /\ jobs' = [jobs EXCEPT ![j] = AfterSuccess(@)]
       ELSE /\ jobs' = [jobs EXCEPT ![j] = AfterFailure(@)]
            /\ UNCHANGED chat
  /\ UNCHANGED <<dirvars, inflight, group, sent, greq, chatQueue, storeUp, callvars>>

\* chatQueue.add('persistMessage', job) by a producer of the queue
AddJob(roomId, userId, type) ==
  /\ Len(jobs) < MaxJobs
  /\ jobs' = Append(jobs, NewJob(roomId, userId, type, Len(jobs) + 1))
  /\ UNCHANGED <<dirvars, inflight, group, sent, greq, chatQueue, chat, storeUp, callvars>>

\* the database stops or starts answering
StoreFail ==
  /\ storeUp
  /\ storeUp' = FALSE
  /\ UNCHANGED <<dirvars, inflight, group, sent, greq, chatQueue, jobs, chat, callvars>>

StoreRestore ==
  /\ ~storeUp
  /\ storeUp' = TRUE
  /\ UNCHANGED <<dirvars, inflight, group, sent, greq, chatQueue, jobs, chat, callvars>>

\* job payloads: no user, a user that exists (a member of the room or not,
\* depending on who created and who left it) or one that does not; TEXT stands
\* for the types other than SYSTEM
JobUsers == {NoUser, NumUsers, GhostId}
JobTypes == {"TEXT", "SYSTEM"}

AddJobStep == \E r \in RoomInputs, u \in JobUsers, t \in JobTypes : AddJob(r, u, t)
ProcessStep == \E j \in 1..MaxJobs : Process(j)

\* the worker draining the queue while rooms are created and left
NextWorker ==
  AuthCreate \/ AuthLeave \/ AddJobStep \/ ProcessStep \/ StoreFail \/ StoreRestore
SpecWorker == Init /\ [][NextWorker]_vars

\* the running worker takes a waiting job sooner or later
SpecWorkerFair == SpecWorker /\ WF_vars(ProcessStep)

\* ---- the room controller's leave and ready endpoints ----

\* An ObjectId names a document of one collection only: the id of a user, read
\* as a Room _id, is well formed and names no room, and the id of a room, read
\* as a user id, names no user.  Malformed ids stay malformed.
AsRoomId(userId) == IF userId < 0 THEN userId ELSE MaxRooms + GenRooms + userId
AsUserId(roomId) == IF roomId < 0 THEN roomId ELSE GhostId + roomId

\* POST /:roomId/leave of the authenticated user u:
\* roomService.leaveRoom(req.user.id, roomId), against leaveRoom(roomId, userId)
HttpLeaveRoom(u, roomId) == LeaveRoom(AsRoomId(u), AsUserId(roomId))

\* POST /:roomId/ready of the authenticated user u:
\* roomService.toggleReady(req.user.id, roomId), against toggleReady(roomId, userId)
HttpToggleReady(u, roomId) == ToggleReady(AsRoomId(u), AsUserId(roomId))

RoomParams == RoomInputs \cup {BadId}
HttpLeave == (\E u \in UserDocs, r \in RoomParams : HttpLeaveRoom(u, r)) /\ UNCHANGED gwvars
HttpReady == (\E u \in UserDocs, r \in RoomParams : HttpToggleReady(u, r)) /\ UNCHANGED gwvars

\* the four protected routes of the room router
NextHttp == AuthCreate \/ AuthJoin \/ HttpLeave \/ HttpReady
SpecHttp == Init /\ [][NextHttp]_vars

\* ---- the chat controller's getRoomMessages ----

NotRoomMemberHttp == "Access denied: Not a member of the room"

\* Room.findById and the members.some check
HistoryErr(rs, roomId, u) ==
  IF roomId \notin 1..Len(rs) THEN RoomNotFound
  ELSE IF u \notin MemberIds(rs[roomId]) THEN NotRoomMemberHttp
  ELSE OK

\* filter = { roomId } and, with a cursor, _id $lt (desc) or $gt (asc) the cursor:
\* the _ids of the matching messages (a message's _id is its position in the
\* collection, _ids grow in the order of the inserts)
Matching(ch, roomId, cursor, order) ==
  { i \in 1..Len(ch) :
      /\ ch[i].roomId = roomId
      /\ \/ cursor = 0
         \/ order = "desc" /\ i < cursor
         \/ order = "asc" /\ i > cursor }

\* whether message i comes before message j under sort({ createdAt: -1 or 1 });
\* equal createdAt values are left in insertion order
Before(ch, order, i, j) ==
  \/ order = "desc" /\ ch[i].createdAt > ch[j].createdAt
  \/ order = "asc" /\ ch[i].createdAt < ch[j].createdAt
  \/ ch[i].createdAt = ch[j].createdAt /\ i < j

RECURSIVE SortByCreatedAt(_, _, _)
SortByCreatedAt(ids, ch, order) ==
  IF ids = {} THEN <<>>
  ELSE LET first == CHOOSE i \in ids : \A j \in ids \ {i} : Before(ch, order, i, j)
       IN <<first>> \o SortByCreatedAt(ids \ {first}, ch, order)

\* .limit(n)
Limit(seq, n) == SubSeq(seq, 1, IF Len(seq) < n THEN Len(seq) ELSE n)

\* nextCursor: the _id of the last message of the page when there are more
NextCursor(messages, hasMore) ==
  IF Len(messages) > 0 /\ hasMore THEN messages[Len(messages)] ELSE 0

\* the response of one request: find(filter).sort().limit(limit + 1), hasMore,
\* pop of the extra message, nextCursor
Page(ch, roomId, cursor, order, limit) ==
  LET fetched == Limit(SortByCreatedAt(Matching(ch, roomId, cursor, order), ch, order), limit + 1)
      hasMore == Len(fetched) > limit
      messages == IF hasMore THEN Limit(fetched, limit) ELSE fetched
  IN [ messages |-> messages, hasMore |-> hasMore,
       nextCursor |-> NextCursor(messages, hasMore) ]

\* GET of the first page by user u with an order and a limit
FirstPage(u, roomId, order, limit) ==
  /\ pager.at = "idle"
  /\ LET err == HistoryErr(rooms, roomId, u)
         page == Page(chat, roomId, 0, order, limit) IN
     pager' = IF err # OK
       THEN [NoPager EXCEPT !.at = "done", !.user = u, !.room = roomId, !.order = order,
                            !.limit = limit, !.err = err]
       ELSE [ at |-> IF page.hasMore THEN "more" ELSE "done", user |-> u, room |-> roomId,
              order |-> order, limit |-> limit, cursor |-> page.nextCursor,
              got |-> page.messages, err |-> OK ]
  /\ UNCHANGED <<dirvars, inflight, group, sent, greq, chatQueue, jobs, chat, storeUp,
                 gen, handler, lastUsers>>

\* GET of the next page with the nextCursor of the page before
FollowCursor ==
  /\ pager.at = "more"
  /\ LET err == HistoryErr(rooms, pager.room, pager.user)
         page == Page(chat, pager.room, pager.cursor, pager.order, pager.limit) IN
     pager' = IF err # OK
       THEN [pager EXCEPT !.at = "done", !.err = err]
       ELSE [pager EXCEPT !.at = IF page.hasMore THEN "more" ELSE "done",
                          !.cursor = page.nextCursor,
                          !.got = @ \o page.messages]
  /\ UNCHANGED <<dirvars, inflight, group, sent, greq, chatQueue, jobs, chat, storeUp,
                 gen, handler, lastUsers>>

\* the permutations of 1..n, as sequences
Perms(n) == { p \in [1..n -> 1..n] : \A i, j \in 1..n : p[i] = p[j] => i = j }

\* A room of users 1 and 2 whose history holds up to MaxMsgs messages.  The
\* createdAt of a message is the timestamp of its job and its _id follows the
\* order of the writes; the worker writes jobs in any order (concurrent
\* attempts, retries), so every arrangement of the timestamps occurs.
InitHistory ==
  /\ users = UserDocs
  /\ rooms = <<SavePush(NewRoom(1, 1, 0), NewMember(2))>>
  /\ presence = HSet(HSet(NoPresence, 1, 1, PresenceEntry(1, FALSE, TRUE)),
                     1, 2, PresenceEntry(2, FALSE, TRUE))
  /\ res = [op |-> "none", room |-> 0, user |-> 0, err |-> OK, hostBefore |-> 0]
  /\ pc = [u \in Callers |-> "idle"]
  /\ loaded = [u \in Callers |-> NotLoaded]
  /\ inflight = [u \in Callers |-> NoCall]
  /\ group = {}
  /\ sent = [c \in UserDocs |-> {}]
  /\ greq = NoRequest
  /\ chatQueue = "null"
  /\ jobs = <<>>
  /\ \E n \in 0..MaxMsgs : \E p \in Perms(n) :
       chat = [i \in 1..n |-> [roomId |-> 1, userId |-> NoUser, type |-> "SYSTEM", createdAt |-> p[i]]]
  /\ storeUp = TRUE
  /\ InitCalls

FirstPageStep ==
  \E u \in UserDocs, r \in RoomInputs, o \in {"asc", "desc"}, l \in 1..MaxLimit :
    FirstPage(u, r, o, l)
NextHistory == FirstPageStep \/ FollowCursor
SpecHistory == InitHistory /\ [][NextHistory]_vars

\* ---- createRoom, step by step (one step per await) ----

\* generateRoomCode(): any code of the (bounded) code space
GeneratedCodes == 1..GenCodes

DuplicateKey == "E11000 duplicate key error"

\* if (attempts === 10)
Exhausted(attempts) == attempts = MaxCodeAttempts

\* room.save() against a collection without the unique index on code
UniqueIndexRejects_NoIndex(rs, code) == FALSE

\* code: { unique: true }: the insert is rejected when a stored room has the code
UniqueIndexRejects(rs, code) == code \in UsedCodes(rs)

\* the id check, User.findById and the first generateRoomCode()
CStart(h) ==
  /\ gen[h].at = "idle"
  /\ IF ~IsValidObjectId(h) \/ ~UserExists(h)
       THEN /\ res' = Result("create", 0, h, IF ~IsValidObjectId(h) THEN InvalidUserId ELSE UserNotFound)
            /\ UNCHANGED gen
       ELSE /\ \E c \in GeneratedCodes :
                 gen' = [gen EXCEPT ![h] = [NoGen EXCEPT !.at = "check", !.code = c]]
            /\ UNCHANGED res
  /\ UNCHANGED <<users, rooms, presence, pc, loaded>>

\* one turn of while (attempts < 10): Room.findOne({ code }), break when it
\* finds nothing, otherwise a new candidate and attempts++; when the loop ends
\* with attempts === 10 the call throws
CCheck(h) ==
  /\ gen[h].at = "check"
  /\ IF FindByCode(rooms, gen[h].code) = 0
       THEN /\ gen' = [gen EXCEPT ![h].at = "save", ![h].checked = @ + 1, ![h].free = gen[h].code]
            /\ UNCHANGED res
       ELSE \E c \in GeneratedCodes :
              LET attempts == gen[h].attempts + 1 IN
              IF attempts < MaxCodeAttempts
                THEN /\ gen' = [gen EXCEPT ![h].code = c, ![h].attempts = attempts,
                                            ![h].checked = @ + 1]
                     /\ UNCHANGED res
                ELSE IF Exhausted(attempts)
                  THEN /\ res' = Result("create", 0, h, CodeGenerationExhausted)
                       /\ gen' = [gen EXCEPT ![h] = NoGen]
                  ELSE /\ gen' = [gen EXCEPT ![h].at = "save", ![h].code = c,
                                              ![h].attempts = attempts, ![h].checked = @ + 1]
                       /\ UNCHANGED res
  /\ UNCHANGED <<users, rooms, presence, pc, loaded>>

\* new Room({...}) and room.save()
CSave(h) ==
  /\ gen[h].at = "save"
  /\ IF UniqueIndexRejects(rooms, gen[h].code)
       THEN /\ res' = Result("create", 0, h, DuplicateKey)
            /\ gen' = [gen EXCEPT ![h] = NoGen]
            /\ UNCHANGED rooms
       ELSE /\ Len(rooms) < GenRooms
            /\ rooms' = Append(rooms, NewRoom(gen[h].code, h, 0))
            /\ gen' = [gen EXCEPT ![h].at = "presence", ![h].room = Len(rooms) + 1]
            /\ UNCHANGED res
  /\ UNCHANGED <<users, presence, pc, loaded>>

\* the populate calls and redis.hset of the host's presence entry
CPresence(h) ==
  /\ gen[h].at = "presence"
  /\ presence' = HSet(presence, gen[h].room, h, PresenceEntry(h, FALSE, TRUE))
  /\ res' = Result("create", gen[h].room, h, OK)
  /\ gen' = [gen EXCEPT ![h] = NoGen]
  /\ UNCHANGED <<users, rooms, pc, loaded>>

GenInputs == (1..GenCallers) \cup {GhostId}
StepUnchanged == <<inflight, group, sent, greq, chatQueue, jobs, chat, storeUp, handler, lastUsers, pager>>
CStartStep == (\E h \in GenInputs : CStart(h)) /\ UNCHANGED StepUnchanged
CCheckStep == (\E h \in GenInputs : CCheck(h)) /\ UNCHANGED StepUnchanged
CSaveStep == (\E h \in GenInputs : CSave(h)) /\ UNCHANGED StepUnchanged
CPresenceStep == (\E h \in GenInputs : CPresence(h)) /\ UNCHANGED StepUnchanged
NextCodeGen == CStartStep \/ CCheckStep \/ CSaveStep \/ CPresenceStep
SpecCodeGen == Init /\ [][NextCodeGen]_vars

\* ---- properties ----

HostCount(room) ==
  Cardinality({ j \in 1..Len(room.members) : room.members[j].role = "HOST" })

\* C1: after any sequence of completed createRoom, joinRoom and leaveRoom
\* operations, every room has at most maxSeats members.
C1_Capacity == \A i \in RoomIds : Len(rooms[i].members) <= rooms[i].maxSeats

\* a join has been refused on a room filled to its capacity
C1_Witness ==
  /\ res.op = "join" /\ res.err = RoomFull /\ res.room \in RoomIds
  /\ Len(rooms[res.room].members) = rooms[res.room].maxSeats

\* C2: with joinRoom calls of distinct callers interleaved at their awaits, once
\* the calls have all returned the stored member count of every room is at most
\* its maxSeats.
C2_AtomicJoins ==
  (\A u \in Callers : pc[u] = "idle")
    => \A i \in RoomIds : Len(rooms[i].members) <= rooms[i].maxSeats

\* C3 as claimed: in a room created with ScenarioSeats seats, a join by a user
\* who is not yet a member succeeds while fewer than ScenarioSeats users have
\* joined, and is refused with the room-full error once ScenarioSeats have.
JoinedCount(room) == Len(room.members) - 1

C3_FourJoinsThenFull ==
  /\ \A i \in RoomIds : \A u \in users \ MemberIds(rooms[i]) :
        JoinErr(rooms, u, rooms[i].code) =
          IF JoinedCount(rooms[i]) < ScenarioSeats THEN OK ELSE RoomFull
  /\ (res.op = "join" /\ res.err = RoomFull) => JoinedCount(rooms[res.room]) = ScenarioSeats

\* C3 amended: the host holds the first seat, so a join by a user who is not yet
\* a member succeeds while fewer than ScenarioSeats - 1 users have joined, and is
\* refused with the room-full error once ScenarioSeats - 1 have.
C3_HostCountsAsSeat ==
  /\ \A i \in RoomIds : \A u \in users \ MemberIds(rooms[i]) :
        JoinErr(rooms, u, rooms[i].code) =
          IF JoinedCount(rooms[i]) < ScenarioSeats - 1 THEN OK ELSE RoomFull
  /\ (res.op = "join" /\ res.err = RoomFull) => JoinedCount(rooms[res.room]) = ScenarioSeats - 1
  /\ (res.op = "join" /\ res.err = OK) => JoinedCount(rooms[res.room]) <= ScenarioSeats - 1

\* the join of one more non-member has been refused after ScenarioSeats - 1 joins
C3_Witness ==
  /\ res.op = "join" /\ res.err = RoomFull /\ res.room \in RoomIds
  /\ res.user \in users \ MemberIds(rooms[res.room])
  /\ rooms[res.room].maxSeats = ScenarioSeats
  /\ JoinedCount(rooms[res.room]) = ScenarioSeats - 1

\* C4: in every state reachable by createRoom, joinRoom, leaveRoom, toggleReady
\* and updateRoom, a room with members has exactly one HOST and a room without
\* members is COMPLETED.
C4_SingleHost ==
  \A i \in RoomIds :
    IF Len(rooms[i].members) > 0
      THEN HostCount(rooms[i]) = 1
      ELSE rooms[i].status = "COMPLETED"

\* C5: when the HOST leaves and other members remain, the room is left with
\* exactly one HOST among the remaining members, one member fewer, and every
\* remaining member other than the new HOST as it was.
MemberOf(room, u) == room.members[FindMember(room.members, u)]

HostLeaves(i, u) ==
  /\ res'.op = "leave" /\ res'.err = OK /\ res'.room = i /\ res'.user = u
  /\ FindMember(rooms[i].members, u) # 0
  /\ MemberOf(rooms[i], u).role = "HOST"
  /\ Len(rooms[i].members) >= 2

C5_HostHandover ==
  [][ \A i \in RoomIds : \A u \in MemberIds(rooms[i]) :
        HostLeaves(i, u) =>
          /\ HostCount(rooms'[i]) = 1
          /\ Len(rooms'[i].members) = Len(rooms[i].members) - 1
          /\ MemberIds(rooms'[i]) = MemberIds(rooms[i]) \ {u}
          /\ \A v \in MemberIds(rooms'[i]) :
                MemberOf(rooms'[i], v).role # "HOST"
                  => MemberOf(rooms'[i], v) = MemberOf(rooms[i], v) ]_vars

\* the host of a room of three has left: one of the two others is HOST, the other MEMBER
C5_Witness ==
  /\ res.op = "leave" /\ res.err = OK /\ res.room \in RoomIds
  /\ res.user = res.hostBefore
  /\ res.user \notin MemberIds(rooms[res.room])
  /\ Len(rooms[res.room].members) = 2
  /\ rooms[res.room].members[1].role = "HOST"
  /\ rooms[res.room].members[2].role = "MEMBER"
  /\ rooms[res.room].hostId = rooms[res.room].members[1].userId

\* C6: in every state reachable by createRoom, joinRoom, leaveRoom, toggleReady
\* and updateRoom, a room is COMPLETED exactly when it has no members, and a
\* COMPLETED room stays COMPLETED.
C6_Completion ==
  /\ [](\A i \in RoomIds : rooms[i].status = "COMPLETED" <=> Len(rooms[i].members) = 0)
  /\ [][ \A i \in RoomIds :
            rooms[i].status = "COMPLETED" => rooms'[i].status = "COMPLETED" ]_vars

\* C7 as claimed: joinRoom with the code of an existing room never fails with
\* room-not-found, and fails with room-full whenever the room holds maxSeats
\* members or more, for every caller (member, non-member or unknown user, with
\* a well-formed id) and every state of the room.
WellFormedUsers == { u \in UserInputs : IsValidObjectId(u) }

C8_FailedJoinNoChange ==
  /\ [](\A u \in WellFormedUsers : \A i \in RoomIds :
          rooms[i].status = "COMPLETED" => JoinErr(rooms, u, rooms[i].code) = RoomClosed)
  /\ [][ (res'.op = "join" /\ res'.err # OK)
            => (rooms' = rooms /\ presence' = presence) ]_vars
  /\ [][ (res'.op = "join" /\ res'.room \in RoomIds /\ IsValidObjectId(res'.user)
            /\ rooms[res'.room].status = "COMPLETED")
            => (res'.err = RoomClosed /\ rooms' = rooms /\ presence' = presence) ]_vars

\* a join by an existing user who is not a member has been refused on a COMPLETED room
C8_Witness ==
  /\ res.op = "join" /\ res.err = RoomClosed /\ res.room \in RoomIds
  /\ rooms[res.room].status = "COMPLETED"
  /\ res.user \notin MemberIds(rooms[res.room])
  /\ res.user \in users

\* C9: leaveRoom for a well-formed user who is not (or no longer) a member of
\* an existing room returns without error and changes no room and no presence
\* entry, and a second leaveRoom leaves the document as the first one left it.
C9_LeaveIdempotent ==
  /\ [](\A i \in RoomIds : \A u \in WellFormedUsers :
          LeaveEffect(LeaveEffect(rooms[i], u), u) = LeaveEffect(rooms[i], u))
  /\ [][ \A i \in RoomIds :
            ( res'.op = "leave" /\ res'.room = i /\ IsValidObjectId(res'.user)
              /\ res'.user \notin MemberIds(rooms[i]) )
            => (res'.err = OK /\ rooms' = rooms /\ presence' = presence) ]_vars

\* C10: toggleReady by a member inverts that member's ready flag and nothing
\* else in the room (two toggles restore the document); toggleReady by a
\* well-formed user who is not a member fails with the not-a-member error and
\* changes no room and no presence entry.
C10_ToggleReady ==
  /\ [](\A i \in RoomIds : \A u \in MemberIds(rooms[i]) :
          /\ ToggleEffect(rooms[i], u) # rooms[i]
          /\ ToggleEffect(ToggleEffect(rooms[i], u), u) = rooms[i])
  /\ [][ \A i \in RoomIds :
            (res'.op = "toggle" /\ res'.room = i /\ IsValidObjectId(res'.user)) =>
              IF res'.user \in MemberIds(rooms[i])
                THEN /\ res'.err = OK
                     /\ Len(rooms') = Len(rooms)
                     /\ \A k \in RoomIds \ {i} : rooms'[k] = rooms[k]
                     /\ rooms'[i].status = rooms[i].status
                     /\ rooms'[i].hostId = rooms[i].hostId
                     /\ rooms'[i].maxSeats = rooms[i].maxSeats
                     /\ rooms'[i].code = rooms[i].code
                     /\ Len(rooms'[i].members) = Len(rooms[i].members)
                     /\ \A j \in 1..Len(rooms[i].members) :
                          /\ rooms'[i].members[j].userId = rooms[i].members[j].userId
                          /\ rooms'[i].members[j].role = rooms[i].members[j].role
                          /\ rooms'[i].members[j].ready =
                               IF rooms[i].members[j].userId = res'.user
                                 THEN ~rooms[i].members[j].ready
                                 ELSE rooms[i].members[j].ready
                ELSE /\ res'.err = NotAMember
                     /\ rooms' = rooms
                     /\ presence' = presence ]_vars

\* a member's second toggle has brought the ready flag back to false, next to
\* another member whose flag is still set
C10_Witness ==
  /\ res.op = "toggle" /\ res.err = OK /\ res.room \in RoomIds
  /\ res.user \in MemberIds(rooms[res.room])
  /\ MemberOf(rooms[res.room], res.user).ready = FALSE
  /\ \E v \in MemberIds(rooms[res.room]) : MemberOf(rooms[res.room], v).ready = TRUE

\* C11: a gateway joinRoom request adds its connection to the room's broadcast
\* group, or sends it a roomUsers or chatHistory event, only if the connection's
\* user is a member of the room when the request is checked; a request by a
\* non-member ends with an error event to the connection, no roomUsers and no
\* chatHistory event, and the broadcast groups as they were.
IsMember(r, c) == r \in RoomIds /\ c \in MemberIds(rooms[r])

C12_SetOnlineNeverCreates ==
  [][ ( \/ \E r \in RoomInputs, u \in UserDocs, b \in BOOLEAN : OnlineRead(r, u, b)
        \/ \E u \in UserDocs : OnlineWrite(u) )
      => (DOMAIN presence') \subseteq (DOMAIN presence) ]_vars

\* C13: the write of updateUserOnlineStatus changes only the isOnline field:
\* id, name and ready of the entry are those stored just before the write, also
\* when a toggleReady wrote the entry after the read.
C13_SetOnlineOnlyOnline ==
  [][ \A u \in UserDocs :
        (OnlineWrite(u) /\ HExists(presence, inflight[u].room, u)) =>
          /\ presence'[<<inflight[u].room, u>>].id = presence[<<inflight[u].room, u>>].id
          /\ presence'[<<inflight[u].room, u>>].name = presence[<<inflight[u].room, u>>].name
          /\ presence'[<<inflight[u].room, u>>].ready = presence[<<inflight[u].room, u>>].ready ]_vars

\* C14: the isOnline field of an entry goes from false to true only in a step
\* that marks the user online: the write of updateUserOnlineStatus(.., true) or
\* the upsert of createRoom or joinRoom for that user; never in a toggleReady.
C14_NoSilentResurrection ==
  [][ \A k \in (DOMAIN presence) \cap (DOMAIN presence') :
        (presence[k].isOnline = FALSE /\ presence'[k].isOnline = TRUE) =>
          /\ res'.op \in {"online", "create", "join"}
          /\ res'.user = k[2] ]_vars

\* C15: a gateway joinRoom request by a member of the room, made while the
\* queue is available, ends with the connection having received a roomUsers
\* event carrying the room's presence list and a chatHistory event, and no
\* error event.
C15_JoinDelivery ==
  [][ \A c \in UserDocs : \A r \in RoomInputs :
        (GatewayJoinRoom(c, r) /\ IsMember(r, c) /\ chatQueue = "open") =>
          /\ RoomUsersEvent(GetRoomPresence(presence', r)) \in sent'[c]
          /\ "chatHistory" \in Kinds(sent'[c])
          /\ "error" \notin Kinds(sent'[c]) ]_vars

\* C16: a gateway joinRoom request by a member made while the queue is
\* unavailable (never created, closed, or rejecting add) still delivers its
\* broadcasts: systemMessage to the other connections of the group, roomUsers
\* to every connection of the group; and no error event goes to the requester.
C16_QueueOutageTolerated ==
  [][ \A c \in UserDocs : \A r \in RoomInputs :
        (GatewayJoinRoom(c, r) /\ IsMember(r, c) /\ chatQueue # "open") =>
          /\ "error" \notin Kinds(sent'[c])
          /\ \A k \in GroupOf(group', r) : "roomUsers" \in Kinds(sent'[k])
          /\ \A k \in GroupOf(group', r) \ {c} : "systemMessage" \in Kinds(sent'[k]) ]_vars

\* C17: a gateway joinRoom request that ends with an error event emits nothing
\* to any other connection and leaves the broadcast groups and the presence
\* entries as they were before the request.
C17_ErrorContainment ==
  [][ \A c \in UserDocs : \A r \in RoomInputs :
        (GatewayJoinRoom(c, r) /\ "error" \in Kinds(sent'[c])) =>
          /\ \A k \in UserDocs \ {c} : sent'[k] = {}
          /\ group' = group
          /\ presence' = presence ]_vars

\* C18: an attempt of the worker writes a ChatMessage only if, when it runs,
\* the job's room exists and, for a job that is not a system message and
\* carries a user, that user exists and is a member of the room; then it writes
\* exactly the job's message.  In every other case the attempt fails (it counts
\* as an attempt, the job is not completed) and the collection is unchanged.
JobValid(job) ==
  /\ job.roomId \in RoomIds
  /\ (job.type # "SYSTEM" /\ job.userId # NoUser) =>
       (job.userId \in users /\ job.userId \in MemberIds(rooms[job.roomId]))

C18_WorkerValidation ==
  [][ \A j \in 1..MaxJobs :
        Process(j) =>
          /\ chat' # chat =>
               (JobValid(jobs[j]) /\ chat' = Append(chat, NewChatMessage(jobs[j])))
          /\ ~JobValid(jobs[j]) =>
               /\ chat' = chat
               /\ jobs'[j].state # "completed"
               /\ jobs'[j].attemptsMade = jobs[j].attemptsMade + 1 ]_vars

\* the message of a member was written, and the job of a user who exists but
\* is not a member of the existing room was attempted and not written
C18_Witness ==
  /\ Len(jobs) = 2 /\ Len(chat) = 1
  /\ \E j \in 1..2 : jobs[j].state = "completed" /\ jobs[j].type = "TEXT" /\ jobs[j].userId # NoUser
  /\ \E j \in 1..2 :
       /\ jobs[j].state # "completed" /\ jobs[j].attemptsMade >= 1
       /\ jobs[j].type = "TEXT" /\ jobs[j].userId \in users
       /\ jobs[j].roomId \in RoomIds
       /\ jobs[j].userId \notin MemberIds(rooms[jobs[j].roomId])

\* C19: a job is attempted at most Attempts (3) times; a job whose attempts all
\* threw is in the failed state after exactly 3 of them; a completed or failed
\* job is never attempted again and no job disappears; and with the worker
\* running every job added reaches completed or failed.
Terminal(job) == job.state \in {"completed", "failed"}

C19_BoundedRetry ==
  /\ [](\A j \in 1..Len(jobs) :
          /\ jobs[j].attemptsMade <= Attempts
          /\ jobs[j].state = "failed" => jobs[j].attemptsMade = Attempts
          /\ jobs[j].state = "waiting" => jobs[j].attemptsMade < Attempts)
  /\ [][ /\ Len(jobs') >= Len(jobs)
         /\ \A j \in 1..Len(jobs) : Terminal(jobs[j]) => jobs'[j] = jobs[j] ]_vars
  /\ \A j \in 1..MaxJobs :
       (Len(jobs) >= j) ~> (Len(jobs) >= j /\ Terminal(jobs[j]))

\* a job was attempted three times and is failed, nothing of it written
C19_Witness ==
  \E j \in 1..Len(jobs) :
    /\ jobs[j].state = "failed" /\ jobs[j].attemptsMade = Attempts
    /\ \A k \in 1..Len(chat) : chat[k].createdAt # jobs[j].timestamp

\* C20: a job as the gateway adds it (a system message without user, for a
\* room that exists) is written by the first attempt made while the database
\* answers, and that attempt completes it; no job is written more often than
\* it was attempted, a completed job was written and a failed gateway job was
\* not; and with the worker running every job ends written or failed.
Written(j) == Cardinality({ k \in 1..Len(chat) : chat[k].createdAt = jobs[j].timestamp })

GatewayJob(job) == job.type = "SYSTEM" /\ job.userId = NoUser /\ job.roomId \in RoomIds

C20_AtLeastOnce ==
  /\ [][ \A j \in 1..MaxJobs :
           (Process(j) /\ storeUp /\ GatewayJob(jobs[j])) =>
             /\ chat' = Append(chat, NewChatMessage(jobs[j]))
             /\ jobs'[j].state = "completed" ]_vars
  /\ [](\A j \in 1..Len(jobs) :
          /\ Written(j) <= jobs[j].attemptsMade
          /\ jobs[j].state = "completed" => Written(j) >= 1
          /\ jobs[j].state = "failed" => Written(j) = 0)
  /\ \A j \in 1..MaxJobs :
       (Len(jobs) >= j) ~> (Len(jobs) >= j /\ (Written(j) >= 1 \/ jobs[j].state = "failed"))

\* a gateway job failed twice while the database was down and was written
\* once by its third attempt
C20_Witness ==
  \E j \in 1..Len(jobs) :
    /\ GatewayJob(jobs[j])
    /\ jobs[j].state = "completed" /\ jobs[j].attemptsMade = Attempts
    /\ Written(j) = 1

\* C21: every ChatMessage the worker writes has as createdAt the timestamp its
\* job carries, on the first attempt and on a retry alike, and never the time
\* of the write.
C21_TimestampPreserved ==
  /\ [][ \A j \in 1..MaxJobs :
           (Process(j) /\ chat' # chat) =>
             /\ Len(chat') = Len(chat) + 1
             /\ chat'[Len(chat')].createdAt = jobs[j].timestamp
             /\ chat'[Len(chat')].createdAt # WriteClock ]_vars
  /\ [](\A k \in 1..Len(chat) :
          \E j \in 1..Len(jobs) :
            /\ jobs[j].state = "completed"
            /\ chat[k].createdAt = jobs[j].timestamp
            /\ chat[k].roomId = jobs[j].roomId)

\* the job added second was written first, at its first attempt, and the job
\* added first was written after it by its third attempt, each with its own
\* timestamp
C21_Witness ==
  /\ Len(jobs) = 2 /\ Len(chat) = 2
  /\ jobs[1].state = "completed" /\ jobs[1].attemptsMade = Attempts
  /\ jobs[2].state = "completed" /\ jobs[2].attemptsMade = 1
  /\ chat[1].createdAt = jobs[2].timestamp
  /\ chat[2].createdAt = jobs[1].timestamp

\* C22: of two jobs of the same room that were both written by their first
\* attempt, the one added earlier is written to the chat history before the
\* one added later.
ChatPos(j) == CHOOSE k \in 1..Len(chat) : chat[k].createdAt = jobs[j].timestamp

FirstTry(j) == jobs[j].state = "completed" /\ jobs[j].attemptsMade = 1

C22_RoomOrder ==
  \A i \in 1..Len(jobs) : \A j \in 1..Len(jobs) :
    (i < j /\ jobs[i].roomId = jobs[j].roomId /\ FirstTry(i) /\ FirstTry(j))
      => ChatPos(i) < ChatPos(j)

\* C23: when a connection bound to a room disconnects, the presence entry of
\* its user for that room ends with isOnline false and the rooms (membership,
\* roles, ready flags) are unchanged; and the member list of a room loses a
\* member only in a leaveRoom.
C23_DisconnectKeepsMembership ==
  /\ [][ \A c \in UserDocs : \A r \in RoomInputs :
           (Disconnect(c) /\ <<r, c>> \in group /\ HExists(presence, r, c)) =>
             /\ HExists(presence', r, c)
             /\ presence'[<<r, c>>].isOnline = FALSE
             /\ rooms' = rooms ]_vars
  /\ [][ \A i \in RoomIds :
           ~(MemberIds(rooms[i]) \subseteq MemberIds(rooms'[i])) => res'.op = "leave" ]_vars

\* C24: createRoom checks at most 10 candidate codes; a room is stored only with
\* a candidate that findOne found unused; the call fails with the
\* code-generation error exactly when the tenth checked candidate collided as
\* the nine before it; no two stored rooms share a code, also when createRoom
\* calls overlap.
C24_BoundedCodeGeneration ==
  /\ [](/\ \A h \in Callers : gen[h].checked <= MaxCodeAttempts
        /\ \A i, j \in 1..Len(rooms) : rooms[i].code = rooms[j].code => i = j)
  /\ [][\A h \in Callers :
         /\ (gen[h].at = "save" /\ Len(rooms') > Len(rooms) /\ gen'[h] # gen[h])
              => /\ gen[h].free # 0
                 /\ rooms'[Len(rooms')].code = gen[h].free
                 /\ gen[h].free \notin { rooms[i].code : i \in 1..Len(rooms) }
         /\ (gen[h].at = "check" /\ gen'[h] # gen[h])
              => ((res'.err = CodeGenerationExhausted /\ gen'[h].at = "idle")
                    <=> (/\ gen[h].checked = MaxCodeAttempts - 1
                         /\ gen[h].attempts = MaxCodeAttempts - 1
                         /\ \E i \in 1..Len(rooms) : rooms[i].code = gen[h].code))
         /\ (gen[h].at # "check" /\ gen'[h] # gen[h])
              => ~(res'.err = CodeGenerationExhausted /\ res'.user = h /\ res' # res)
      ]_vars

\* C24 witness: the last call gave up after ten collisions while another call,
\* which found its candidate unused, is about to save a code that a concurrent
\* call stored in the meantime.
C24_Witness ==
  /\ res.err = CodeGenerationExhausted
  /\ \E h \in Callers : gen[h].at = "save" /\ gen[h].code \in { rooms[i].code : i \in 1..Len(rooms) }

\* C25: with createRoom, joinRoom, leaveRoom, toggleReady and
\* updateUserOnlineStatus each run to completion, the users that have a
\* presence entry for a room are exactly the room's current members (and no
\* entry belongs to a room that does not exist).
C25_PresenceMatchesMembership ==
  /\ \A k \in DOMAIN presence : k[1] \in 1..Len(rooms)
  /\ \A r \in 1..Len(rooms) :
       { u \in Callers \cup {BadId} : <<r, u>> \in DOMAIN presence }
         = { rooms[r].members[i].userId : i \in 1..Len(rooms[r].members) }

\* C25 witness: a member has just left a room that keeps other members, one of
\* whom was marked offline by updateUserOnlineStatus.
C25_Witness ==
  /\ res.op = "leave" /\ res.err = OK
  /\ res.room \in 1..Len(rooms)
  /\ <<res.room, res.user>> \notin DOMAIN presence
  /\ Len(rooms[res.room].members) >= 1
  /\ \E k \in DOMAIN presence : k[1] = res.room /\ ~presence[k].isOnline

\* C26: when the last of a set of overlapping joinRoom handlers finishes with
\* its roomUsers broadcast, the list it delivers to the connections bound to
\* the room is the content of the room's presence hash at that moment.
C26_BroadcastNotStale ==
  [][\A c \in UserDocs :
       (handler[c].at = "add" /\ jobs' # jobs /\ Quiet')
         => \A k \in GroupOf(group', handler[c].room) :
              /\ lastUsers'[k].seen
              /\ lastUsers'[k].list = GetRoomPresence(presence', handler[c].room)
    ]_vars

\* C27: once no updateUserOnlineStatus call is in flight, every member that has a
\* presence entry has the same ready flag in the entry as in the Room document;
\* and each completed toggleReady inverts the member's flag in the document (so
\* k of them leave it inverted exactly when k is odd).
C27_ReadyFlagsAgree ==
  /\ []((\A u \in Callers : inflight[u] = NoCall)
         => \A r \in 1..Len(rooms) : \A i \in 1..Len(rooms[r].members) :
              <<r, rooms[r].members[i].userId>> \in DOMAIN presence
                => presence[<<r, rooms[r].members[i].userId>>].ready = rooms[r].members[i].ready)
  /\ [][(res'.op = "toggle" /\ res'.err = OK /\ rooms' # rooms)
          => \E i \in 1..Len(rooms[res'.room].members) :
               /\ rooms[res'.room].members[i].userId = res'.user
               /\ rooms'[res'.room].members[i].ready = ~rooms[res'.room].members[i].ready
      ]_vars

\* C28: in every state reached by createRoom, joinRoom and leaveRoom, a room
\* with at least one member has a hostId that is the userId of a current
\* member, and that member is the only one whose role is HOST.
C28_HostIdFollowsRole ==
  \A r \in 1..Len(rooms) :
    Len(rooms[r].members) >= 1
      => \E i \in 1..Len(rooms[r].members) :
           /\ rooms[r].members[i].userId = rooms[r].hostId
           /\ \A j \in 1..Len(rooms[r].members) :
                rooms[r].members[j].role = "HOST" <=> j = i

\* C28 witness: the creator of a room of two has left; the member who stayed is
\* alone in the room, has the role HOST and is the room's hostId.
C28_Witness ==
  /\ res.op = "leave" /\ res.err = OK /\ res.room \in 1..Len(rooms)
  /\ res.user = res.hostBefore
  /\ Len(rooms[res.room].members) = 1
  /\ rooms[res.room].hostId # res.hostBefore
  /\ rooms[res.room].hostId = rooms[res.room].members[1].userId
  /\ rooms[res.room].members[1].role = "HOST"
  /\ rooms[res.room].status # "COMPLETED"

\* C29: a leave request of a member u of room r reaches leaveRoom as (room r,
\* user u) and leaves u out of r's members; a ready request of a member u of
\* room r reaches toggleReady as (room r, user u) and inverts u's ready flag in r.
C29_EndpointsActOnRoomAndUser ==
  [][\A r \in 1..Len(rooms) : \A u \in UserDocs :
       (\E i \in 1..Len(rooms[r].members) : rooms[r].members[i].userId = u)
         => /\ HttpLeaveRoom(u, r)
                => /\ res'.room = r /\ res'.user = u /\ res'.err = OK
                   /\ \A i \in 1..Len(rooms'[r].members) : rooms'[r].members[i].userId # u
            /\ HttpToggleReady(u, r)
                => /\ res'.room = r /\ res'.user = u /\ res'.err = OK
                   /\ \E i \in 1..Len(rooms[r].members) :
                        /\ rooms[r].members[i].userId = u
                        /\ rooms'[r].members[i].ready = ~rooms[r].members[i].ready
    ]_vars

\* C30: a member who follows nextCursor until hasMore is false has received
\* every stored message of the room exactly once, in createdAt order
\* (descending or ascending as requested).
C30_CompletePaging ==
  (pager.at = "done" /\ pager.err = OK)
    => /\ Len(pager.got) = Cardinality({ i \in 1..Len(chat) : chat[i].roomId = pager.room })
       /\ \A i \in 1..Len(chat) :
            chat[i].roomId = pager.room => \E k \in 1..Len(pager.got) : pager.got[k] = i
       /\ \A k, m \in 1..Len(pager.got) :
            k < m => IF pager.order = "desc"
                       THEN chat[pager.got[k]].createdAt > chat[pager.got[m]].createdAt
                       ELSE chat[pager.got[k]].createdAt < chat[pager.got[m]].createdAt

====
